---------------------------- MODULE Spec2Model ----------------------------
(***************************************************************************)
(* Model of src/client/model.rs: the Model descriptor, its builder-style   *)
(* setters, identifier resolution against a registry (Model::find), token  *)
(* accounting and the capability parser.                                   *)
(*                                                                         *)
(* Strings are sequences of one-character strings, so that split_once,     *)
(* format! and str::contains are computed and not assumed.  Option<T> is   *)
(* the empty sequence (None) or a one-element sequence (Some).             *)
(***************************************************************************)
EXTENDS Integers, Sequences, FiniteSets, TLC

VARIABLES
    model,      \* the descriptor under construction (self of the setters)
    before,     \* the descriptor the last setter was called on
    models,     \* the registry handed to Model::find
    value,      \* the query string of the last find
    found,      \* the Option<Model> the last find returned
    messages,   \* the conversation
    body,       \* messages_tokens of the conversation
    total,      \* total_tokens of the conversation
    limit,      \* result of max_tokens_limit: "Ok" or "Err"
    text,       \* the input of the capability parser
    caps,       \* the ModelCapabilities parsed from text
    op,         \* the last operation applied
    arg         \* its argument

vars == <<model, before, models, value, found, messages, body, total, limit,
          text, caps, op, arg>>

-----------------------------------------------------------------------------
(* Option<T> *)

None == <<>>

Some(x) == <<x>>

(* bitflags ModelCapabilities: a set of flag names, |= is union *)

Text == "Text"

Vision == "Vision"

empty == {}

-----------------------------------------------------------------------------
(* Bounds of the model *)

MaxModels == 2

MaxMessages == 2

MaxPerMessages == 2

MaxBias == 1

MaxLimit == 4

MaxTextLen == 11

-----------------------------------------------------------------------------
(* str helpers *)

\* position of the first occurrence of character c in s, 0 when absent
FirstIndexOf(s, c) ==
    LET hits == {i \in 1..Len(s) : s[i] = c}
    IN  IF hits = {} THEN 0
        ELSE CHOOSE i \in hits : \A j \in hits : i <= j

\* str::split_once(c): the text before and after the FIRST c
split_once(s, c) ==
    LET k == FirstIndexOf(s, c)
    IN  IF k = 0 THEN None
        ELSE Some(<<SubSeq(s, 1, k - 1), SubSeq(s, k + 1, Len(s))>>)

\* str::contains(pat)
contains(s, pat) ==
    \E i \in 1..(Len(s) - Len(pat) + 1) : SubSeq(s, i, i + Len(pat) - 1) = pat

\* Iterator::find: the first element of s among those at the positions
\* hits, the positions whose element satisfies the closure
iter_find(s, hits) ==
    IF hits = {} THEN None
    ELSE Some(s[CHOOSE i \in hits : \A j \in hits : i <= j])

-----------------------------------------------------------------------------
(* impl Model *)

new(client_name, name) ==
    [client_name |-> client_name,
     name |-> name,
     max_tokens |-> None,
     tokens_count_factors |-> <<0, 0>>,
     capabilities |-> {Text}]

id(self) == self.client_name \o <<":">> \o self.name

set_capabilities(self, capabilities) ==
    [self EXCEPT !.capabilities = capabilities]

\* variant: the limit stored as given, Some(0) included
set_max_tokens_raw(self, max_tokens) ==
    [self EXCEPT !.max_tokens = max_tokens]

set_max_tokens(self, max_tokens) ==
    IF max_tokens = None \/ max_tokens = Some(0)
    THEN [self EXCEPT !.max_tokens = None]
    ELSE [self EXCEPT !.max_tokens = max_tokens]

set_tokens_count_factors(self, tokens_count_factors) ==
    [self EXCEPT !.tokens_count_factors = tokens_count_factors]

\* find, lines 38-47: <<client_name, model_name>> parsed from the query
\* variant: an empty model name kept as an explicit one
parse_value_keep_empty(v) ==
    LET sp == split_once(v, ":")
    IN  IF sp = None THEN <<v, None>> ELSE <<sp[1][1], Some(sp[1][2])>>

parse_value(v) ==
    LET sp == split_once(v, ":")
    IN  IF sp # None
        THEN IF sp[1][2] = <<>>
             THEN <<sp[1][1], None>>
             ELSE <<sp[1][1], Some(sp[1][2])>>
        ELSE <<v, None>>

\* find, line 50: models.iter().find(|v| v.id() == value)
\* variant: the exact match compares the model name, not the identifier
find_by_name(ms, v) ==
    iter_find(ms, {i \in 1..Len(ms) : ms[i].name = v})

find_by_id(ms, v) ==
    iter_find(ms, {i \in 1..Len(ms) : id(ms[i]) = v})

\* find, lines 52 and 59: models.iter().find(|v| v.client_name == client_name)
\* variant: the backend matched by prefix
find_by_client_prefix(ms, client_name) ==
    iter_find(ms, {i \in 1..Len(ms) :
                      /\ Len(ms[i].client_name) >= Len(client_name)
                      /\ SubSeq(ms[i].client_name, 1, Len(client_name))
                             = client_name})

find_by_client(ms, client_name) ==
    iter_find(ms, {i \in 1..Len(ms) : ms[i].client_name = client_name})

\* find, lines 53-55: the clone with its name overridden
\* variant: the name of the matched entry kept
with_name_kept(m, model_name) == m

with_name(m, model_name) == [m EXCEPT !.name = model_name]

find(ms, v) ==
    LET parsed == parse_value(v)
        client_name == parsed[1]
        model_name == parsed[2]
    IN  IF model_name # None
        THEN IF find_by_id(ms, v) # None
             THEN Some(find_by_id(ms, v)[1])
             ELSE IF find_by_client(ms, client_name) # None
                  THEN Some(with_name(find_by_client(ms, client_name)[1],
                                      model_name[1]))
                  ELSE None
        ELSE IF find_by_client(ms, client_name) # None
             THEN Some(find_by_client(ms, client_name)[1])
             ELSE None

-----------------------------------------------------------------------------
(* Messages: a role and a content, MessageContent::Text(text) or            *)
(* MessageContent::Array(parts).  A message is a record of its role, the    *)
(* variant of its content (kind) and the payload of that variant; the      *)
(* payload of the other variant is left empty.  A text is the sequence of  *)
(* its tokens.                                                             *)

TextMessage(role, t) ==
    [role |-> role, kind |-> "Text", text |-> t, parts |-> <<>>]

ArrayMessage(role, parts) ==
    [role |-> role, kind |-> "Array", text |-> <<>>, parts |-> parts]

\* crate::utils::count_tokens: the tokenizer, text -> number of tokens
count_tokens(t) == Len(t)

\* MessageRole::is_user
is_user(role) == role = "user"

\* what an estimate of an array content would count: the tokens of its parts
RECURSIVE parts_tokens(_)
parts_tokens(parts) ==
    IF parts = <<>> THEN 0
    ELSE count_tokens(Head(parts)) + parts_tokens(Tail(parts))

\* messages_tokens, lines 92-97: the closure mapped over the messages
\* variant: array contents estimated instead of counted as 0
content_tokens_counting_arrays(m) ==
    IF m.kind = "Text" THEN count_tokens(m.text) ELSE parts_tokens(m.parts)

content_tokens(m) ==
    IF m.kind = "Text" THEN count_tokens(m.text) ELSE 0

RECURSIVE sum_content_tokens(_)
sum_content_tokens(ms) ==
    IF ms = <<>> THEN 0
    ELSE content_tokens(Head(ms)) + sum_content_tokens(Tail(ms))

messages_tokens(self, ms) == sum_content_tokens(ms)

\* variant: the overhead charged for every message, whatever the last role
total_tokens_every_message(self, ms) ==
    IF ms = <<>> THEN 0
    ELSE Len(ms) * self.tokens_count_factors[1] + messages_tokens(self, ms)

\* variant: the overhead charged only when the last message is the user's
total_tokens_user_only(self, ms) ==
    IF ms = <<>> THEN 0
    ELSE IF is_user(ms[Len(ms)].role)
         THEN Len(ms) * self.tokens_count_factors[1] + messages_tokens(self, ms)
         ELSE messages_tokens(self, ms)

total_tokens(self, ms) ==
    IF ms = <<>> THEN 0
    ELSE LET num_messages == Len(ms)
             message_tokens == messages_tokens(self, ms)
             per_messages == self.tokens_count_factors[1]
         IN  IF is_user(ms[num_messages].role)
             THEN num_messages * per_messages + message_tokens
             ELSE (num_messages - 1) * per_messages + message_tokens

\* variant: the limit itself still allowed (> for >=)
max_tokens_limit_strict(self, ms) ==
    IF self.max_tokens # None
         /\ total_tokens(self, ms) + self.tokens_count_factors[2]
                > self.max_tokens[1]
    THEN "Err" ELSE "Ok"

max_tokens_limit(self, ms) ==
    LET bias == self.tokens_count_factors[2]
        total_tokens_ == total_tokens(self, ms) + bias
    IN  IF self.max_tokens # None
        THEN IF total_tokens_ >= self.max_tokens[1] THEN "Err" ELSE "Ok"
        ELSE "Ok"

-----------------------------------------------------------------------------
(* impl From<&str> for ModelCapabilities *)

lit_text == <<"t", "e", "x", "t">>

lit_vision == <<"v", "i", "s", "i", "o", "n">>

\* variant: the empty input not read as "text"
from_str_no_default(v) ==
    (IF contains(v, lit_text) THEN {Text} ELSE empty)
        \cup (IF contains(v, lit_vision) THEN {Vision} ELSE empty)

from_str(v) ==
    LET v_ == IF v = <<>> THEN lit_text ELSE v
        output1 == IF contains(v_, lit_text) THEN empty \cup {Text} ELSE empty
        output2 == IF contains(v_, lit_vision)
                   THEN output1 \cup {Vision} ELSE output1
    IN  output2

-----------------------------------------------------------------------------
(* Inputs of the resolution specification *)

ClientNames ==
    { <<"a">>, <<"b">>, <<"a", ":", "b">> }

ModelNames ==
    { <<>>, <<"x">>, <<"b", ":", "x">> }

\* two configurations a registry entry may carry besides its names
Payloads ==
    { <<None, <<0, 0>>, {Text}>>, <<Some(4), <<3, 1>>, {Text, Vision}>> }

Entry(c, n, p) ==
    set_tokens_count_factors(
        set_max_tokens(set_capabilities(new(c, n), p[3]), p[1]), p[2])

Entries == { Entry(c, n, p) : c \in ClientNames, n \in ModelNames, p \in Payloads }

Queries ==
    { id(new(c, n)) : c \in ClientNames, n \in ModelNames }
        \cup ClientNames
        \cup { <<"c">>, <<"c", ":">>, <<"c", ":", "x">>, <<"a", ":", "y">>,
               <<"b", ":", "y", ":", "x">>, <<>>, <<":">>, <<":", "x">> }

-----------------------------------------------------------------------------
(* Resolution: a registry is filled in order, then queried *)

NoConversation ==
    /\ messages = <<>>
    /\ body = 0
    /\ total = 0
    /\ limit = "Ok"

NoParse ==
    /\ text = <<>>
    /\ caps = {Text}

InitFind ==
    /\ model = new(<<>>, <<>>)
    /\ before = new(<<>>, <<>>)
    /\ models = <<>>
    /\ value = <<>>
    /\ found = None
    /\ NoConversation
    /\ NoParse
    /\ op = "init"
    /\ arg = None

Register(m) ==
    /\ Len(models) < MaxModels
    /\ models' = Append(models, m)
    /\ found' = None
    /\ value' = <<>>
    /\ op' = "register"
    /\ arg' = None
    /\ UNCHANGED <<model, before, messages, body, total, limit, text, caps>>

Find(v) ==
    /\ value' = v
    /\ found' = find(models, v)
    /\ op' = "find"
    /\ arg' = None
    /\ UNCHANGED <<model, before, models, messages, body, total, limit, text, caps>>

NextFind ==
    \/ \E m \in Entries : Register(m)
    \/ \E v \in Queries : Find(v)

SpecFind == InitFind /\ [][NextFind]_vars

-----------------------------------------------------------------------------
(* Construction: a descriptor is made by new and changed by the setters in  *)
(* any order; it may be put in the registry at any point, and the registry  *)
(* queried.                                                                *)

MaxTokensArgs == { None, Some(0), Some(1), Some(2) }

CapabilitiesArgs == { {Text}, {Text, Vision} }

FactorsArgs == { <<0, 0>>, <<3, 1>> }

BuildQueries == { <<"a">>, <<"a", ":", "y">> }

InitBuild ==
    /\ model = new(<<"a">>, <<"x">>)
    /\ before = new(<<"a">>, <<"x">>)
    /\ models = <<>>
    /\ value = <<>>
    /\ found = None
    /\ NoConversation
    /\ NoParse
    /\ op = "new"
    /\ arg = None

SetMaxTokens(max_tokens) ==
    /\ before' = model
    /\ model' = set_max_tokens(model, max_tokens)
    /\ op' = "set_max_tokens"
    /\ arg' = max_tokens
    /\ UNCHANGED <<models, value, found, messages, body, total, limit, text, caps>>

SetCapabilities(capabilities) ==
    /\ before' = model
    /\ model' = set_capabilities(model, capabilities)
    /\ op' = "set_capabilities"
    /\ arg' = None
    /\ UNCHANGED <<models, value, found, messages, body, total, limit, text, caps>>

SetTokensCountFactors(tokens_count_factors) ==
    /\ before' = model
    /\ model' = set_tokens_count_factors(model, tokens_count_factors)
    /\ op' = "set_tokens_count_factors"
    /\ arg' = None
    /\ UNCHANGED <<models, value, found, messages, body, total, limit, text, caps>>

NextBuild ==
    \/ \E a \in MaxTokensArgs : SetMaxTokens(a)
    \/ \E a \in CapabilitiesArgs : SetCapabilities(a)
    \/ \E a \in FactorsArgs : SetTokensCountFactors(a)
    \/ Register(model)
    \/ \E v \in BuildQueries : Find(v)

SpecBuild == InitBuild /\ [][NextBuild]_vars

\* C7: set_max_tokens(Some(0)) and set_max_tokens(None) leave no limit, also
\* over a positive one; no descriptor built by new and the setters, held by
\* a registry of such descriptors or returned by find from it, has a limit
\* of zero.
C7_MaxTokensNeverZero ==
    /\ (op = "set_max_tokens" /\ arg \in {None, Some(0)})
           => model = [before EXCEPT !.max_tokens = None]
    /\ model.max_tokens # Some(0)
    /\ \A i \in 1..Len(models) : models[i].max_tokens # Some(0)
    /\ found # None => found[1].max_tokens # Some(0)

\* a positive limit is cleared by Some(0), after a descriptor with a limit
\* was registered and found
C7_Witness ==
    /\ op = "set_max_tokens"
    /\ arg = Some(0)
    /\ before.max_tokens = Some(2)
    /\ model.max_tokens = None
    /\ found # None
    /\ found[1].max_tokens = Some(1)

-----------------------------------------------------------------------------
(* Properties of resolution, stated over the registry and the query alone *)

NoColon(s) == \A i \in 1..Len(s) : s[i] # ":"

\* the query has a ':' and the text after its first ':' is not empty
ExplicitModel(q) ==
    \E k \in 1..Len(q) :
        /\ q[k] = ":"
        /\ \A j \in 1..(k - 1) : q[j] # ":"
        /\ k < Len(q)

HasBackend(b) == \E i \in 1..Len(models) : models[i].client_name = b

HasId(q) == \E i \in 1..Len(models) : id(models[i]) = q

FirstOfBackend(b) ==
    models[CHOOSE i \in 1..Len(models) :
              /\ models[i].client_name = b
              /\ \A j \in 1..(i - 1) : models[j].client_name # b]

FirstOfId(q) ==
    models[CHOOSE i \in 1..Len(models) :
              /\ id(models[i]) = q
              /\ \A j \in 1..(i - 1) : id(models[j]) # q]

Renamed(m, n) ==
    [client_name |-> m.client_name,
     name |-> n,
     max_tokens |-> m.max_tokens,
     tokens_count_factors |-> m.tokens_count_factors,
     capabilities |-> m.capabilities]

\* the decompositions of q as u ++ ":" ++ m, one for each ':' of q
Splits(q) ==
    { <<SubSeq(q, 1, k - 1), SubSeq(q, k + 1, Len(q))>> :
        k \in {i \in 1..Len(q) : q[i] = ":"} }

\* C3 as stated: a query that is the identifier of some entry returns the
\* first entry with that identifier, unchanged.
C3_ExactMatchAnyIdentifier ==
    (op = "find" /\ HasId(value)) => found = Some(FirstOfId(value))

\* C3, amended: a query that is the identifier of some entry, and whose text
\* after its first ':' is not empty, returns the first entry with that
\* identifier, unchanged.
C3_ExactMatch ==
    (op = "find" /\ HasId(value) /\ ExplicitModel(value))
        => found = Some(FirstOfId(value))

\* the exact entry is returned although an earlier entry of the same backend,
\* configured differently, precedes it
C3_Witness ==
    /\ op = "find"
    /\ ExplicitModel(value)
    /\ Len(models) >= 2
    /\ id(models[2]) = value
    /\ id(models[1]) # value
    /\ models[1].client_name = models[2].client_name
    /\ models[1].max_tokens # models[2].max_tokens
    /\ found = Some(models[2])

\* C4 as stated: for b a backend of the registry and m non-empty and not
\* configured under b, the query b:m returns the first entry of backend b
\* with its name replaced by m.
C4_FallbackAnyBackend ==
    op = "find" =>
        \A s \in Splits(value) :
            ( /\ s[2] # <<>>
              /\ HasBackend(s[1])
              /\ ~ \E i \in 1..Len(models) :
                     models[i].client_name = s[1] /\ models[i].name = s[2] )
            => found = Some(Renamed(FirstOfBackend(s[1]), s[2]))

\* C4, amended: the same for b containing no ':' and m such that no entry of
\* the registry has the identifier b:m.
C4_Fallback ==
    op = "find" =>
        \A s \in Splits(value) :
            ( /\ s[2] # <<>>
              /\ NoColon(s[1])
              /\ HasBackend(s[1])
              /\ ~ HasId(value) )
            => found = Some(Renamed(FirstOfBackend(s[1]), s[2]))

\* an unconfigured model of a known backend inherits the configuration of the
\* backend's first entry, not of a later one
C4_Witness ==
    /\ op = "find"
    /\ Len(models) >= 2
    /\ models[1].client_name = models[2].client_name
    /\ models[1].max_tokens # None
    /\ models[2].max_tokens = None
    /\ NoColon(models[1].client_name)
    /\ ~ HasId(value)
    /\ value = models[1].client_name \o <<":", "y">>
    /\ found # None
    /\ found[1].name = <<"y">>
    /\ found[1].max_tokens = models[1].max_tokens
    /\ found[1].capabilities = models[1].capabilities

\* C5: for b without ':', the queries b and b: both return the first entry of
\* backend b unchanged, or nothing when there is none; an entry with an empty
\* model name has no priority for b:.
C5_EmptyModelIsBackendOnly ==
    op = "find" =>
        \A b \in {value} \cup {SubSeq(value, 1, Len(value) - 1)} :
            ( /\ NoColon(b)
              /\ value \in {b, b \o <<":">>} )
            => found = IF HasBackend(b) THEN Some(FirstOfBackend(b)) ELSE None

\* the query b: is answered by the backend's first entry although a later
\* entry has the identifier b: itself
C5_Witness ==
    /\ op = "find"
    /\ Len(models) >= 2
    /\ value = <<"a", ":">>
    /\ models[1].client_name = <<"a">>
    /\ models[1].name # <<>>
    /\ id(models[2]) = value
    /\ found = Some(models[1])

\* C6 as stated: for u the backend of no entry, the queries u and u:m return
\* nothing.
C6_UnknownAnyBackend ==
    op = "find" =>
        \A u \in {value} \cup {s[1] : s \in Splits(value)} :
            ~ HasBackend(u) => found = None

\* C6, amended: for u without ':' the backend of no entry, the query u
\* returns nothing, and the query u:m returns nothing when no entry has the
\* identifier u:m; an empty registry answers nothing to every query.
C6_Unknown ==
    op = "find" =>
        /\ (NoColon(value) /\ ~ HasBackend(value)) => found = None
        /\ \A s \in Splits(value) :
               (NoColon(s[1]) /\ ~ HasBackend(s[1]) /\ ~ HasId(value))
                   => found = None
        /\ models = <<>> => found = None

\* an unknown backend with an explicit model is not found in a registry
\* that holds other backends
C6_Witness ==
    /\ op = "find"
    /\ value = <<"c", ":", "x">>
    /\ Len(models) >= 2
    /\ found = None

-----------------------------------------------------------------------------
(* Token accounting: a conversation grows by one message at a time and is   *)
(* counted and checked against the descriptor's limit after each message.  *)

Roles == {"system", "assistant", "user"}

Texts == { <<>>, <<"hi">>, <<"hello", "world">> }

Arrays == { <<>>, << <<"look", "at", "this">> >> }

Messages ==
    { TextMessage(r, t) : r \in Roles, t \in Texts }
        \cup { ArrayMessage(r, a) : r \in Roles, a \in Arrays }

Descriptors ==
    { set_tokens_count_factors(
          set_max_tokens(new(<<"a">>, <<"x">>), mt), <<p, b>>) :
        mt \in {None} \cup {Some(n) : n \in 0..MaxLimit},
        p \in 0..MaxPerMessages,
        b \in 0..MaxBias }

InitTokens ==
    /\ model \in Descriptors
    /\ before = model
    /\ models = <<>>
    /\ value = <<>>
    /\ found = None
    /\ messages = <<>>
    /\ body = messages_tokens(model, <<>>)
    /\ total = total_tokens(model, <<>>)
    /\ limit = max_tokens_limit(model, <<>>)
    /\ NoParse
    /\ op = "check"
    /\ arg = None

Push(m) ==
    /\ Len(messages) < MaxMessages
    /\ messages' = Append(messages, m)
    /\ body' = messages_tokens(model, messages')
    /\ total' = total_tokens(model, messages')
    /\ limit' = max_tokens_limit(model, messages')
    /\ op' = "check"
    /\ UNCHANGED <<model, before, models, value, found, text, caps, arg>>

NextTokens == \E m \in Messages : Push(m)

SpecTokens == InitTokens /\ [][NextTokens]_vars

\* the text messages' tokens, counted one by one
TextTokenCount(ms) ==
    Cardinality(UNION { {i} \X (1..Len(ms[i].text)) :
                          i \in {k \in 1..Len(ms) : ms[k].kind = "Text"} })

\* C1: the limit check fails exactly when a limit is configured and
\* total_tokens + bias >= max_tokens; with no limit it succeeds whatever the
\* total and the bias.
C1_LimitExactlyWhenReached ==
    /\ limit = "Err" <=>
           /\ model.max_tokens # None
           /\ total_tokens(model, messages) + model.tokens_count_factors[2]
                  >= model.max_tokens[1]
    /\ model.max_tokens = None => limit = "Ok"

\* the limit is reached exactly, and the check fails
C1_Witness ==
    /\ model.max_tokens # None
    /\ messages # <<>>
    /\ model.tokens_count_factors[2] > 0
    /\ total + model.tokens_count_factors[2] = model.max_tokens[1]
    /\ limit = "Err"

\* C2: total_tokens is 0 for no message, n * per_message + body when the
\* last message is the user's, (n - 1) * per_message + body otherwise; the
\* bias and the roles of earlier messages play no part.
C2_TotalTokens ==
    LET n == Len(messages)
        per_message == model.tokens_count_factors[1]
    IN  total = IF n = 0 THEN 0
                ELSE IF messages[n].role = "user"
                     THEN n * per_message + messages_tokens(model, messages)
                     ELSE (n - 1) * per_message
                              + messages_tokens(model, messages)

\* two messages, the user's first and another role's last: one overhead only,
\* and no bias
C2_Witness ==
    /\ Len(messages) = 2
    /\ messages[1].role = "user"
    /\ messages[2].role = "assistant"
    /\ model.tokens_count_factors = <<2, 1>>
    /\ body = 3
    /\ total = 5

\* C9: messages_tokens is the sum of count_tokens over the plain-text
\* messages; an array message contributes 0 whatever it holds, and neither
\* the descriptor nor the roles matter.
C9_MessagesTokens ==
    body = TextTokenCount(messages)

\* an array message with content beside a text message: only the text counts
C9_Witness ==
    /\ Len(messages) = 2
    /\ messages[1].kind = "Array"
    /\ messages[1].parts # <<>>
    /\ messages[2].kind = "Text"
    /\ body = 2

\* C10: appending a message never lowers total_tokens, so a failed limit
\* check stays failed for every extension of the conversation, and every
\* prefix of a conversation that passes the check passes it.  (usize
\* arithmetic is taken without overflow: the totals stay far below 2^64.)
C10_AppendMonotone ==
    /\ [][ ( /\ Len(messages') = Len(messages) + 1
             /\ SubSeq(messages', 1, Len(messages)) = messages
             /\ model' = model )
           => ( /\ total' >= total
                /\ limit = "Err" => limit' = "Err" ) ]_vars
    /\ [](limit = "Ok" =>
             \A k \in 0..Len(messages) :
                 max_tokens_limit(model, SubSeq(messages, 1, k)) = "Ok")

\* a conversation ending on the user's turn fails the check; a reply of
\* another role with no tokens leaves the total where it was, still failing
C10_Witness ==
    /\ Len(messages) = 2
    /\ messages[1].role = "user"
    /\ messages[2].role = "assistant"
    /\ model.tokens_count_factors[1] > 0
    /\ max_tokens_limit(model, SubSeq(messages, 1, 1)) = "Err"
    /\ total = total_tokens(model, SubSeq(messages, 1, 1))
    /\ limit = "Err"

-----------------------------------------------------------------------------
(* Capability parsing: the configured text is put together from fragments   *)
(* and parsed.                                                             *)

Fragments ==
    { lit_text, lit_vision, <<",">>, <<"f", "o", "o">>,
      <<"T", "e", "x", "t">>, <<"t", "e">>, <<"x", "t">>,
      <<"v", "i", "s">>, <<"i", "o", "n">> }

InitCaps ==
    /\ model = new(<<>>, <<>>)
    /\ before = new(<<>>, <<>>)
    /\ models = <<>>
    /\ value = <<>>
    /\ found = None
    /\ NoConversation
    /\ text = <<>>
    /\ caps = from_str(<<>>)
    /\ op = "from"
    /\ arg = None

Parse(fragment) ==
    /\ Len(text) + Len(fragment) <= MaxTextLen
    /\ text' = text \o fragment
    /\ caps' = from_str(text')
    /\ op' = "from"
    /\ UNCHANGED <<model, before, models, value, found, messages, body, total,
                   limit, arg>>

NextCaps == \E f \in Fragments : Parse(f)

SpecCaps == InitCaps /\ [][NextCaps]_vars

\* pat occurs in s: s is some text, then pat, then some text
Occurs(pat, s) ==
    \E i \in 0..Len(s) : \E j \in i..Len(s) : SubSeq(s, i + 1, j) = pat

\* C8: the parsed set holds Text exactly when the input is empty or contains
\* "text", and Vision exactly when it contains "vision" (case-sensitive);
\* so "" gives {Text}, "vision" {Vision}, "text,vision" {Text, Vision} and
\* "foo" the empty set.
C8_CapabilityParser ==
    /\ caps \subseteq {Text, Vision}
    /\ Text \in caps <=> (text = <<>> \/ Occurs(lit_text, text))
    /\ Vision \in caps <=> Occurs(lit_vision, text)
    /\ text = <<>> => caps = {Text}
    /\ text = lit_vision => caps = {Vision}
    /\ text = lit_text \o <<",">> \o lit_vision => caps = {Text, Vision}
    /\ text = <<"f", "o", "o">> => caps = {}

\* "text,vision" parsed to both flags
C8_Witness ==
    /\ text = lit_text \o <<",">> \o lit_vision
    /\ caps = {Text, Vision}

=============================================================================
